---------------------------- MODULE Spec2Model ----------------------------
(***************************************************************************)
(* Model of the three workshop utility scripts:                            *)
(*   scripts/convert_to_colab.py        (notebook converter)               *)
(*   scripts/download_images_batch.py   (image downloader)                 *)
(*   scripts/precalculate_embeddings.py (embedding pre-calculation)        *)
(*                                                                         *)
(* Text is modelled as a sequence of tokens.  The token "NL" is the        *)
(* newline character; every other token is a fixed piece of text that      *)
(* contains no newline:                                                    *)
(*   "ND"    NOTEBOOK_DIR = Path(".").resolve()                            *)
(*   "PRN"   PROJECT_ROOT = NOTEBOOK_DIR.parent                            *)
(*   "CD"    CURRENT_DIR  = Path.cwd()                                     *)
(*   "PRC"   PROJECT_ROOT = CURRENT_DIR.parent                             *)
(*   "DET"   # Detect environment and set up paths                         *)
(*   "TRY"   try:                                                          *)
(*   "IMP"       import google.colab                                       *)
(*   "END"   print(f'Models dir   : {MODELS_DIR}')                         *)
(*   "MK"    a piece of text containing .mkdir(                            *)
(*   "X"     any other code text                                           *)
(*   "NEW"   PROJECT_ROOT = Path("<drive path>")                           *)
(*   "NDNEW" NOTEBOOK_DIR = PROJECT_ROOT                                   *)
(*   "DATA", "IMAGES", "MODELS", "PR1", "PR2"   the other lines of the     *)
(*           NB00 replacement text                                         *)
(*   "TXT"   markdown text, "IMGOK" / "IMGMISSING" a markdown image        *)
(*           reference into ../misc/assets/img/ whose file exists / does   *)
(*           not exist, "URI" the inlined base64 data URI reference        *)
(*   "M1".."M4", "I1".."I3"   the lines of the mount and install cells     *)
(***************************************************************************)
EXTENDS Integers, Sequences, FiniteSets, TLC

VARIABLES
    \* replace_project_root applied to one source text
    rpr_pc, rpr_src, rpr_out,
    \* convert_to_colab.py main()
    conv_pc, nb_dir_exists, notebooks, nb_content, nb_idx, out_files, conv_log,
    conv_exit,
    \* download_images_batch.py main() / download_dataset()
    dl_pc, meta_exists, objects, max_images, fs, fs0, tasks, task_idx,
    downloaded, failed, attempts, dl_exit, meta_loaded, out_dir_created, dl_log,
    run, retry,
    \* precalculate_embeddings.py main() / calculate_embeddings()
    emb_pc, images_dir_exists, image_files, decodable, batch_size, batch_i,
    all_embeddings, all_filenames, failed_images, archive, index_json,
    model_loaded, emb_exit, emb_log

rprVars  == <<rpr_pc, rpr_src, rpr_out>>
convVars == <<conv_pc, nb_dir_exists, notebooks, nb_content, nb_idx, out_files,
              conv_log, conv_exit>>
dlVars   == <<dl_pc, meta_exists, objects, max_images, fs, fs0, tasks, task_idx,
              downloaded, failed, attempts, dl_exit, meta_loaded,
              out_dir_created, dl_log, run, retry>>
embVars  == <<emb_pc, images_dir_exists, image_files, decodable, batch_size,
              batch_i, all_embeddings, all_filenames, failed_images, archive,
              index_json, model_loaded, emb_exit, emb_log>>
vars == <<rprVars, convVars, dlVars, embVars>>

None == "None"

\* no file at a path
NoFile == [exists |-> FALSE]

-----------------------------------------------------------------------------
(* Bounds of the model *)

MaxSegs == 4
MaxCells == 2
MaxObjects == 3
MaxImages == 4
MaxBatch == 3
\* runs of the downloader over one output directory
MaxRuns == 2

-----------------------------------------------------------------------------
(* Text helpers: Python str operations on token sequences *)

Min(a, b) == IF a < b THEN a ELSE b

\* s[i:] starts with p
StartsAt(s, p, i) ==
    /\ i >= 1
    /\ i + Len(p) - 1 <= Len(s)
    /\ SubSeq(s, i, i + Len(p) - 1) = p

\* p in s (p non-empty)
Contains(s, p) == \E i \in 1..Len(s) : StartsAt(s, p, i)

RECURSIVE ReplaceFrom(_, _, _, _)
ReplaceFrom(s, old, new, i) ==
    IF i > Len(s) THEN <<>>
    ELSE IF StartsAt(s, old, i)
         THEN new \o ReplaceFrom(s, old, new, i + Len(old))
         ELSE <<s[i]>> \o ReplaceFrom(s, old, new, i + 1)

\* s.replace(old, new): leftmost non-overlapping occurrences
StrReplace(s, old, new) == ReplaceFrom(s, old, new, 1)

RECURSIVE SplitFrom(_, _, _)
SplitFrom(s, i, cur) ==
    IF i > Len(s) THEN <<cur>>
    ELSE IF s[i] = "NL"
         THEN <<cur>> \o SplitFrom(s, i + 1, <<>>)
         ELSE SplitFrom(s, i + 1, Append(cur, s[i]))

\* s.split('\n')
SplitNL(s) == SplitFrom(s, 1, <<>>)

RECURSIVE JoinNL(_)
\* '\n'.join(lines)
JoinNL(lines) ==
    IF Len(lines) = 0 THEN <<>>
    ELSE IF Len(lines) = 1 THEN lines[1]
    ELSE lines[1] \o <<"NL">> \o JoinNL(Tail(lines))

RECURSIVE Concat(_)
\* "".join(ss)
Concat(ss) == IF Len(ss) = 0 THEN <<>> ELSE ss[1] \o Concat(Tail(ss))

\* number of consecutive "NL" tokens of s starting at position i
RECURSIVE NLRun(_, _)
NLRun(s, i) ==
    IF i <= Len(s) /\ s[i] = "NL" THEN 1 + NLRun(s, i + 1) ELSE 0


-----------------------------------------------------------------------------
(* convert_to_colab.py: path patterns *)

NB01_OLD == <<"ND", "NL", "PRN">>

NB00_DETECT == <<"DET", "NL", "TRY", "NL", "IMP">>

STANDALONE_NOTEBOOK_DIR_OLD == <<"ND">>
STANDALONE_NOTEBOOK_DIR_NEW == <<"NDNEW">>

\* new_line = f'PROJECT_ROOT = Path("{project_root_value}")'
new_line == <<"NEW">>

nb00_replacement ==
    <<"NEW", "NL", "NDNEW", "NL", "NL", "DATA", "NL", "IMAGES", "NL", "MODELS",
      "NL", "NL", "PR1", "NL", "PR2", "NL", "END">>

\* index of the first "END" token of s at or after position j, 0 when none
RECURSIVE FirstEnd(_, _)
FirstEnd(s, j) ==
    IF j > Len(s) THEN 0
    ELSE IF s[j] = "END" THEN j
    ELSE FirstEnd(s, j + 1)

\* NB00_BLOCK_RE matches at position i: "# Detect ...\ntry:" then, lazily,
\* anything up to the first "print(f'Models dir ...')"
NB00BlockAt(s, i) ==
    /\ StartsAt(s, <<"DET", "NL", "TRY">>, i)
    /\ FirstEnd(s, i + 3) # 0

RECURSIVE NB00SubFrom(_, _)
NB00SubFrom(s, i) ==
    IF i > Len(s) THEN <<>>
    ELSE IF NB00BlockAt(s, i)
         THEN nb00_replacement \o NB00SubFrom(s, FirstEnd(s, i + 3) + 1)
         ELSE <<s[i]>> \o NB00SubFrom(s, i + 1)

\* NB00_BLOCK_RE.subn(nb00_replacement, source): [source, n > 0]
NB00_BLOCK_subn(s) ==
    [source |-> NB00SubFrom(s, 1),
     matched |-> \E i \in 1..Len(s) : NB00BlockAt(s, i)]

\* NB_CURRENT_DIR_RE matches at position i; the \s*\n of the pattern takes
\* one or more newlines
CurrentDirAt(s, i) ==
    /\ i <= Len(s)
    /\ s[i] = "CD"
    /\ NLRun(s, i + 1) >= 1
    /\ i + 1 + NLRun(s, i + 1) <= Len(s)
    /\ s[i + 1 + NLRun(s, i + 1)] = "PRC"

NB_CURRENT_DIR_search(s) == \E i \in 1..Len(s) : CurrentDirAt(s, i)

RECURSIVE CurrentDirSubFrom(_, _)
CurrentDirSubFrom(s, i) ==
    IF i > Len(s) THEN <<>>
    ELSE IF CurrentDirAt(s, i)
         THEN new_line \o CurrentDirSubFrom(s, i + 2 + NLRun(s, i + 1))
         ELSE <<s[i]>> \o CurrentDirSubFrom(s, i + 1)

NB_CURRENT_DIR_sub(s) == CurrentDirSubFrom(s, 1)

RECURSIVE CollapseFrom(_, _)
CollapseFrom(s, i) ==
    IF i > Len(s) THEN <<>>
    ELSE IF s[i] = "NL"
         THEN (IF NLRun(s, i) >= 3 THEN <<"NL", "NL">>
               ELSE SubSeq(s, i, i + NLRun(s, i) - 1))
              \o CollapseFrom(s, i + NLRun(s, i))
         ELSE <<s[i]>> \o CollapseFrom(s, i + 1)

\* re.sub(r'\n{3,}', '\n\n', result)
CollapseNewlines(s) == CollapseFrom(s, 1)

HasMkdir(line) == \E k \in 1..Len(line) : line[k] = "MK"
NoMkdir(line) == ~HasMkdir(line)

remove_mkdir_lines(source) ==
    CollapseNewlines(JoinNL(SelectSeq(SplitNL(source), NoMkdir)))

\* the three setup-pattern steps of replace_project_root:
\* [source after the replacements, was_setup_cell]
SetupStep(source) ==
    LET s1 == IF Contains(source, NB00_DETECT)
              THEN NB00_BLOCK_subn(source)
              ELSE [source |-> source, matched |-> FALSE]
        s2 == IF Contains(s1.source, NB01_OLD)
              THEN [source |-> StrReplace(s1.source, NB01_OLD, new_line),
                    matched |-> TRUE]
              ELSE s1
        s3 == IF NB_CURRENT_DIR_search(s2.source)
              THEN [source |-> NB_CURRENT_DIR_sub(s2.source), matched |-> TRUE]
              ELSE s2
    IN  s3

StandaloneStep(source) ==
    IF Contains(source, STANDALONE_NOTEBOOK_DIR_OLD)
    THEN StrReplace(source, STANDALONE_NOTEBOOK_DIR_OLD,
                    STANDALONE_NOTEBOOK_DIR_NEW)
    ELSE source

replace_project_root_always_strips(source) ==
    StandaloneStep(remove_mkdir_lines(SetupStep(source).source))

replace_project_root(source) ==
    LET s3 == SetupStep(source)
        s4 == IF s3.matched THEN remove_mkdir_lines(s3.source) ELSE s3.source
    IN  StandaloneStep(s4)

-----------------------------------------------------------------------------
(* convert_to_colab.py: cells and notebooks *)

\* "".join(src): the cell source, stored as a list of lines, as one text
source_as_str(cell) == Concat(cell.source)

\* text.split("\n") with the newline put back on every line but the last
str_to_source(text) ==
    IF text = <<>> THEN <<>>
    ELSE LET lines == SplitNL(text)
         IN  [i \in 1..Len(lines) |->
                IF i < Len(lines) THEN lines[i] \o <<"NL">> ELSE lines[i]]

MOUNT_CELL_SOURCE == <<"M1", "NL", "M2", "NL", "M3", "NL", "M4">>
INSTALL_CELL_SOURCE == <<"I1", "NL", "I2", "NL", "I3">>

make_code_cell(cell_id, source) ==
    [cell_type |-> "code", id |-> cell_id, source |-> str_to_source(source),
     outputs |-> <<>>, execution_count |-> None, malformed |-> FALSE]

\* re.sub over the markdown image references: a reference into
\* ../misc/assets/img/ whose file exists becomes a data URI
embed_images(source) ==
    [i \in 1..Len(source) |-> IF source[i] = "IMGOK" THEN "URI" ELSE source[i]]

\* reading the source of a malformed cell raises
CellRaises(cell) ==
    /\ cell.cell_type \in {"code", "markdown"}
    /\ cell.malformed

\* step 1 of convert_notebook for one cell
FixCell(cell) ==
    IF cell.cell_type = "code"
    THEN LET src == source_as_str(cell)
             new_src == replace_project_root(src)
         IN  IF new_src # src
             THEN [cell EXCEPT !.source = str_to_source(new_src)]
             ELSE cell
    ELSE IF cell.cell_type = "markdown"
    THEN LET src == source_as_str(cell)
             new_src == embed_images(src)
         IN  IF new_src # src
             THEN [cell EXCEPT !.source = str_to_source(new_src)]
             ELSE cell
    ELSE cell

ClearCell_keeps_count(cell) ==
    IF cell.cell_type = "code"
    THEN [cell EXCEPT !.outputs = <<>>]
    ELSE cell

\* step 2 of convert_notebook for one cell
ClearCell(cell) ==
    IF cell.cell_type = "code"
    THEN [cell EXCEPT !.outputs = <<>>, !.execution_count = None]
    ELSE cell

PrependCells_install_first(cells) ==
    << make_code_cell("colab-install-deps", INSTALL_CELL_SOURCE),
       make_code_cell("colab-mount-drive", MOUNT_CELL_SOURCE) >> \o cells

\* step 3 of convert_notebook
PrependCells(cells) ==
    << make_code_cell("colab-mount-drive", MOUNT_CELL_SOURCE),
       make_code_cell("colab-install-deps", INSTALL_CELL_SOURCE) >> \o cells

\* convert_notebook: [raised, nb]; nb is the notebook written to output_path
convert_notebook(nb) ==
    IF \E k \in 1..Len(nb.cells) : CellRaises(nb.cells[k])
    THEN [raised |-> TRUE, nb |-> NoFile]
    ELSE LET fixed == [k \in 1..Len(nb.cells) |-> FixCell(nb.cells[k])]
             cleared == [k \in 1..Len(fixed) |-> ClearCell(fixed[k])]
             IN  [raised |-> FALSE,
              nb |-> [exists |-> TRUE, nbformat |-> nb.nbformat,
                      cells |-> PrependCells(cleared)]]

-----------------------------------------------------------------------------
(* One code cell handed to step 1 of convert_notebook *)

Segments ==
    { <<"NL">>, <<"NL", "NL", "NL">>, <<"X">>, <<"MK">>, <<"ND">>,
      <<"ND", "NL", "PRN">>, <<"CD", "NL", "PRC">>, <<"CD", "NL", "NL", "PRC">>,
      <<"DET", "NL", "TRY", "NL", "IMP">>, <<"END">> }

RECURSIVE SourcesUpTo(_)
\* the source texts: up to n segments one after the other
SourcesUpTo(n) ==
    IF n = 0 THEN {<<>>}
    ELSE LET shorter == SourcesUpTo(n - 1)
         IN  shorter \cup {s \o g : s \in shorter, g \in Segments}

CodeCell(source) ==
    [cell_type |-> "code", id |-> "cell", source |-> source,
     outputs |-> <<"stdout">>, execution_count |-> "In1", malformed |-> FALSE]

RprIdle ==
    /\ rpr_pc = "idle"
    /\ rpr_src = <<>>
    /\ rpr_out = <<>>

\* the cell source is stored line by line or as one chunk
InitRpr ==
    /\ rpr_pc = "call"
    /\ \E text \in SourcesUpTo(MaxSegs), chunk \in BOOLEAN :
         rpr_src = IF chunk /\ text # <<>> THEN <<text>> ELSE str_to_source(text)
    /\ rpr_out = <<>>

\* step 1 of convert_notebook on the code cell: replace_project_root on its
\* source, stored back when it changed
RprCall ==
    /\ rpr_pc = "call"
    /\ rpr_out' = FixCell(CodeCell(rpr_src)).source
    /\ rpr_pc' = "done"
    /\ UNCHANGED <<rpr_src, convVars, dlVars, embVars>>

-----------------------------------------------------------------------------
(* Input notebooks *)

CellPool ==
    { \* setup cell with a .mkdir() line and old outputs
      [cell_type |-> "code", id |-> "setup",
       source |-> << <<"ND", "NL">>, <<"PRN", "NL">>, <<"MK", "NL">>, <<"X">> >>,
       outputs |-> <<"stdout">>, execution_count |-> "In3", malformed |-> FALSE],
      \* code cell without any path pattern, with old outputs, its source
      \* stored as one chunk and not line by line
      [cell_type |-> "code", id |-> "plain",
       source |-> << <<"X", "NL", "MK">> >>,
       outputs |-> <<"stdout", "image">>, execution_count |-> "In1",
       malformed |-> FALSE],
      \* code cell that was never run
      [cell_type |-> "code", id |-> "fresh",
       source |-> << <<"ND">> >>,
       outputs |-> <<>>, execution_count |-> None, malformed |-> FALSE],
      [cell_type |-> "markdown", id |-> "text",
       source |-> << <<"TXT", "NL">>, <<"IMGOK", "NL">>, <<"IMGMISSING">> >>,
       malformed |-> FALSE],
      [cell_type |-> "raw", id |-> "raw",
       source |-> << <<"X">> >>, malformed |-> FALSE],
      \* code cell whose source cannot be read as text
      [cell_type |-> "code", id |-> "broken",
       source |-> <<>>,
       outputs |-> <<"stdout">>, execution_count |-> "In2", malformed |-> TRUE] }

Notebooks ==
    { [cells |-> c, nbformat |-> 4] :
        c \in UNION { [1..n -> CellPool] : n \in 0..MaxCells } }

\* the *.ipynb names a notebooks directory can hold, in sorted order
NameOrder == <<"nb1", "nb2">>
NotebookNames == {NameOrder[k] : k \in 1..Len(NameOrder)}
EmptyNotebook == [cells |-> <<>>, nbformat |-> 4]

ConvIdle ==
    /\ conv_pc = "idle"
    /\ nb_dir_exists = FALSE
    /\ notebooks = <<>>
    /\ nb_content = [n \in NotebookNames |-> EmptyNotebook]
    /\ nb_idx = 0
    /\ out_files = [n \in NotebookNames |-> NoFile]
    /\ conv_log = <<>>
    /\ conv_exit = "running"

InitConv ==
    /\ conv_pc = "start"
    /\ nb_dir_exists \in BOOLEAN
    /\ \E present \in (IF nb_dir_exists THEN SUBSET NotebookNames ELSE {{}}) :
         /\ notebooks = SelectSeq(NameOrder, LAMBDA n : n \in present)
         /\ \E c \in [present -> Notebooks] :
              nb_content = [n \in NotebookNames |->
                              IF n \in present THEN c[n] ELSE EmptyNotebook]
    /\ nb_idx = 0
    /\ out_files = [n \in NotebookNames |-> NoFile]
    /\ conv_log = <<>>
    /\ conv_exit = "running"

\* main() up to the loop: notebooks = sorted(notebooks_dir.glob("*.ipynb"))
ConvMain ==
    /\ conv_pc = "start"
    /\ IF notebooks = <<>>
       THEN /\ conv_log' = Append(conv_log, [msg |-> "No notebooks found", nb |-> None])
            /\ conv_pc' = "done"
            /\ conv_exit' = "exit0"
            /\ UNCHANGED nb_idx
       ELSE /\ conv_log' = Append(conv_log, [msg |-> "Converting", nb |-> None])
            /\ conv_pc' = "loop"
            /\ nb_idx' = 1
            /\ UNCHANGED conv_exit
    /\ UNCHANGED <<nb_dir_exists, notebooks, nb_content, out_files>>
    /\ UNCHANGED <<rprVars, dlVars, embVars>>

ConvNotebook_abort ==
    /\ conv_pc = "loop"
    /\ nb_idx <= Len(notebooks)
    /\ LET name == notebooks[nb_idx]
           r == convert_notebook(nb_content[name])
       IN  IF r.raised
           THEN /\ conv_pc' = "done"
                /\ conv_exit' = "uncaught"
                /\ UNCHANGED <<out_files, conv_log, nb_idx>>
           ELSE /\ out_files' = [out_files EXCEPT ![name] = r.nb]
                /\ conv_log' = Append(conv_log, [msg |-> "ok", nb |-> name])
                /\ nb_idx' = nb_idx + 1
                /\ UNCHANGED <<conv_pc, conv_exit>>
    /\ UNCHANGED <<nb_dir_exists, notebooks, nb_content>>
    /\ UNCHANGED <<rprVars, dlVars, embVars>>

\* one iteration of main()'s loop: try convert_notebook, except Exception
ConvNotebook ==
    /\ conv_pc = "loop"
    /\ nb_idx <= Len(notebooks)
    /\ LET name == notebooks[nb_idx]
           r == convert_notebook(nb_content[name])
       IN  IF r.raised
           THEN /\ conv_log' = Append(conv_log, [msg |-> "failed", nb |-> name])
                /\ UNCHANGED out_files
           ELSE /\ out_files' = [out_files EXCEPT ![name] = r.nb]
                /\ conv_log' = Append(conv_log, [msg |-> "ok", nb |-> name])
    /\ nb_idx' = nb_idx + 1
    /\ UNCHANGED <<conv_pc, nb_dir_exists, notebooks, nb_content, conv_exit>>
    /\ UNCHANGED <<rprVars, dlVars, embVars>>

\* main() after the loop: prints "Done!" and returns
ConvDone ==
    /\ conv_pc = "loop"
    /\ nb_idx > Len(notebooks)
    /\ conv_log' = Append(conv_log, [msg |-> "Done", nb |-> None])
    /\ conv_pc' = "done"
    /\ conv_exit' = "exit0"
    /\ UNCHANGED <<nb_dir_exists, notebooks, nb_content, nb_idx, out_files>>
    /\ UNCHANGED <<rprVars, dlVars, embVars>>

NextConv == ConvMain \/ ConvNotebook \/ ConvDone

-----------------------------------------------------------------------------
(* download_images_batch.py *)

\* Names are sequences of one-character strings.
Letters == {"a", "b", "g", "j", "k", "n", "o", "p", "u", "w", "U"}
Digits == {"1", "2", "7"}

\* c.isalnum()
IsAlnum(c) == c \in Letters \cup Digits

\* c.isalnum() or c in ' ._-'
IsSafeChar(c) == IsAlnum(c) \/ c \in {" ", ".", "_", "-"}

RECURSIVE LStrip(_, _)
\* s.lstrip(chars)
LStrip(s, chars) ==
    IF Len(s) > 0 /\ s[1] \in chars THEN LStrip(Tail(s), chars) ELSE s

RECURSIVE RStrip(_, _)
\* s.rstrip(chars)
RStrip(s, chars) ==
    IF Len(s) > 0 /\ s[Len(s)] \in chars
    THEN RStrip(SubSeq(s, 1, Len(s) - 1), chars)
    ELSE s

\* s.strip(chars)
Strip(s, chars) == RStrip(LStrip(s, chars), chars)

\* max_length of the artist part of a file name
ArtistMaxLength == 30

\* sanitize_filename(name, max_length)
sanitize_filename(name, max_length) ==
    IF name = <<>> THEN <<"u", "n", "k", "n", "o", "w", "n">>
    ELSE LET safe == SelectSeq(name, IsSafeChar)
             stripped == Strip(safe, {" "})
         IN  SubSeq(stripped, 1, Min(max_length, Len(stripped)))

\* the filename get_image_info builds: f"{artist}_{object_id}.jpg"
ImageFilename(obj) ==
    LET artist ==
            IF obj.people # <<>>
            THEN sanitize_filename(
                     Strip(obj.people[1].firstName \o <<"_">>
                               \o obj.people[1].familyName, {"_"}),
                     ArtistMaxLength)
            ELSE <<"U", "n", "k", "n", "o", "w", "n">>
    IN  artist \o <<"_">> \o obj.objectId \o <<".", "j", "p", "g">>

NoPeople == <<>>

\* metadata objects: multimedia is "none" (no multimedia list), "nourl"
\* (no jpg at the resolution) or "url"; the two objects of artist a b map to
\* the same file name, and one objectId holds a path separator
ObjectPool ==
    { [multimedia |-> "none",  url |-> "", people |-> NoPeople,
       objectId |-> <<"1">>],
      [multimedia |-> "nourl", url |-> "", people |-> NoPeople,
       objectId |-> <<"1">>],
      [multimedia |-> "url",   url |-> "u1",
       people |-> <<[firstName |-> <<"a", "/">>, familyName |-> <<"b">>]>>,
       objectId |-> <<"1">>],
      [multimedia |-> "url",   url |-> "u1b",
       people |-> <<[firstName |-> <<" ", "a">>, familyName |-> <<"b", "*">>],
                    [firstName |-> <<"g">>, familyName |-> <<"k">>]>>,
       objectId |-> <<"1">>],
      [multimedia |-> "url",   url |-> "u2", people |-> NoPeople,
       objectId |-> <<"2">>],
      [multimedia |-> "url",   url |-> "u3",
       people |-> <<[firstName |-> <<>>, familyName |-> <<>>]>>,
       objectId |-> <<"7", "/", "2">>] }

\* get_image_info: [url, filename], both None when there is no image
get_image_info(obj) ==
    IF obj.multimedia = "url"
    THEN [url |-> obj.url, filename |-> ImageFilename(obj)]
    ELSE [url |-> None, filename |-> None]

\* the file names get_image_info can produce, and files on disk
FileNames ==
    {get_image_info(o).filename : o \in {x \in ObjectPool : x.multimedia = "url"}}
Absent == [exists |-> FALSE, data |-> "", complete |-> FALSE]
OldFile == [exists |-> TRUE, data |-> "old", complete |-> TRUE]

\* the path lies in a subdirectory of the output directory; the output
\* directory has no subdirectories, so no file can be there
InSubdirectory(output_path) ==
    \E k \in 1..Len(output_path) : output_path[k] = "/"

\* what a request can do
Outcomes == {"ok", "http_error", "stream_error"}

\* download_image: [ok, file]; file is what is at output_path afterwards
download_image(url, output_path, old_file, outcome) ==
    IF outcome = "http_error"
    THEN [ok |-> FALSE, file |-> old_file]
    ELSE IF InSubdirectory(output_path)
    THEN \* open() raises FileNotFoundError
         [ok |-> FALSE, file |-> old_file]
    ELSE IF outcome = "ok"
    THEN [ok |-> TRUE, file |-> [exists |-> TRUE, data |-> url, complete |-> TRUE]]
    ELSE \* "stream_error": the file was opened, the body did not arrive
         [ok |-> FALSE, file |-> [exists |-> TRUE, data |-> url, complete |-> FALSE]]

\* objects_with_images after the filter and the max limit
ObjectsWithImages(objs, max) ==
    LET with == SelectSeq(objs, LAMBDA o : o.multimedia # "none")
    IN  IF max.given /\ max.n # 0
        THEN SubSeq(with, 1, Min(max.n, Len(with)))
        ELSE with

\* the task list built from objects_with_images against the files on disk
RECURSIVE PrepareTasks(_, _)
PrepareTasks(objs, files) ==
    IF Len(objs) = 0 THEN <<>>
    ELSE LET info == get_image_info(objs[1])
         IN  (IF info.url # None /\ ~files[info.filename].exists
              THEN << [url |-> info.url, output_path |-> info.filename] >>
              ELSE <<>>)
             \o PrepareTasks(Tail(objs), files)

MaxOptions ==
    {[given |-> FALSE, n |-> 0]} \cup {[given |-> TRUE, n |-> k] : k \in 0..MaxObjects}

DlIdle ==
    /\ dl_pc = "idle"
    /\ meta_exists = FALSE
    /\ objects = <<>>
    /\ max_images = [given |-> FALSE, n |-> 0]
    /\ fs = [f \in FileNames |-> Absent]
    /\ fs0 = fs
    /\ tasks = <<>>
    /\ task_idx = 0
    /\ downloaded = 0
    /\ failed = 0
    /\ attempts = <<>>
    /\ dl_exit = "running"
    /\ meta_loaded = FALSE
    /\ out_dir_created = FALSE
    /\ dl_log = <<>>
    /\ run = 1
    /\ retry = {}

InitDl ==
    /\ dl_pc = "start"
    /\ meta_exists \in BOOLEAN
    /\ objects \in UNION { [1..n -> ObjectPool] : n \in 0..MaxObjects }
    /\ meta_exists = FALSE => objects = <<>>
    /\ max_images \in MaxOptions
    /\ fs \in [FileNames -> {Absent, OldFile}]
    /\ \A f \in FileNames : InSubdirectory(f) => fs[f] = Absent
    /\ fs0 = fs
    /\ tasks = <<>>
    /\ task_idx = 0
    /\ downloaded = 0
    /\ failed = 0
    /\ attempts = <<>>
    /\ dl_exit = "running"
    /\ meta_loaded = FALSE
    /\ out_dir_created = FALSE
    /\ dl_log = <<>>
    /\ run = 1
    /\ retry = {}

\* main() and download_dataset() up to the download loop
DlMain ==
    /\ dl_pc = "start"
    /\ IF ~meta_exists
       THEN /\ dl_log' = <<"Error: Metadata file not found">>
            /\ dl_pc' = "done"
            /\ dl_exit' = "exit1"
            /\ UNCHANGED <<tasks, task_idx, meta_loaded, out_dir_created>>
       ELSE LET t == PrepareTasks(ObjectsWithImages(objects, max_images), fs)
            IN  /\ meta_loaded' = TRUE
                /\ out_dir_created' = TRUE
                /\ tasks' = t
                /\ IF t = <<>>
                   THEN /\ dl_log' = <<"Loaded", "Images to download",
                                       "No new images to download!">>
                        /\ dl_pc' = "done"
                        /\ dl_exit' = "exit0"
                        /\ UNCHANGED task_idx
                   ELSE /\ dl_log' = <<"Loaded", "Images to download">>
                        /\ dl_pc' = "loop"
                        /\ task_idx' = 1
                        /\ UNCHANGED dl_exit
    /\ UNCHANGED <<meta_exists, objects, max_images, fs, fs0, downloaded,
                   failed, attempts, run, retry>>
    /\ UNCHANGED <<rprVars, convVars, embVars>>

DlAttempt_stop_on_failure ==
    /\ dl_pc = "loop"
    /\ task_idx <= Len(tasks)
    /\ \E outcome \in Outcomes :
         LET t == tasks[task_idx]
             r == download_image(t.url, t.output_path, fs[t.output_path], outcome)
         IN  /\ fs' = [fs EXCEPT ![t.output_path] = r.file]
             /\ attempts' = Append(attempts,
                   [task |-> task_idx, output_path |-> t.output_path,
                    existed |-> fs[t.output_path].exists, ok |-> r.ok])
             /\ IF r.ok
                THEN /\ downloaded' = downloaded + 1
                     /\ task_idx' = task_idx + 1
                     /\ UNCHANGED failed
                ELSE /\ failed' = failed + 1
                     /\ task_idx' = Len(tasks) + 1
                     /\ UNCHANGED downloaded
    /\ UNCHANGED <<dl_pc, meta_exists, objects, max_images, fs0, tasks, dl_exit,
                   meta_loaded, out_dir_created, dl_log, run, retry>>
    /\ UNCHANGED <<rprVars, convVars, embVars>>

\* one iteration of the download loop
DlAttempt ==
    /\ dl_pc = "loop"
    /\ task_idx <= Len(tasks)
    /\ \E outcome \in Outcomes :
         LET t == tasks[task_idx]
             r == download_image(t.url, t.output_path, fs[t.output_path], outcome)
         IN  /\ fs' = [fs EXCEPT ![t.output_path] = r.file]
             /\ attempts' = Append(attempts,
                   [task |-> task_idx, output_path |-> t.output_path,
                    existed |-> fs[t.output_path].exists, ok |-> r.ok])
             /\ IF r.ok
                THEN /\ downloaded' = downloaded + 1
                     /\ UNCHANGED failed
                ELSE /\ failed' = failed + 1
                     /\ UNCHANGED downloaded
    /\ task_idx' = task_idx + 1
    /\ UNCHANGED <<dl_pc, meta_exists, objects, max_images, fs0, tasks, dl_exit,
                   meta_loaded, out_dir_created, dl_log, run, retry>>
    /\ UNCHANGED <<rprVars, convVars, embVars>>

\* after the loop: the summary is printed and the script ends
DlDone ==
    /\ dl_pc = "loop"
    /\ task_idx > Len(tasks)
    /\ dl_pc' = "done"
    /\ dl_exit' = "exit0"
    /\ dl_log' = Append(dl_log, "Download complete!")
    /\ UNCHANGED <<meta_exists, objects, max_images, fs, fs0, tasks, task_idx,
                   downloaded, failed, attempts, meta_loaded, out_dir_created,
                   run, retry>>
    /\ UNCHANGED <<rprVars, convVars, embVars>>

NextDl == DlMain \/ DlAttempt \/ DlDone

\* the output paths whose download failed in this run with nothing on disk
\* before the attempt, and those whose download succeeded
FailedFresh(atts) ==
    {atts[i].output_path : i \in {j \in 1..Len(atts) : ~atts[j].ok /\ ~atts[j].existed}}
Succeeded(atts) ==
    {atts[i].output_path : i \in {j \in 1..Len(atts) : atts[j].ok}}

\* the script is invoked again with the same arguments: the metadata and the
\* output directory are as the last run left them; retry collects the paths
\* whose download has failed and never succeeded in the runs so far
DlRerun ==
    /\ dl_pc = "done"
    /\ run < MaxRuns
    /\ run' = run + 1
    /\ retry' = (retry \cup FailedFresh(attempts)) \ Succeeded(attempts)
    /\ dl_pc' = "start"
    /\ fs0' = fs
    /\ tasks' = <<>>
    /\ task_idx' = 0
    /\ downloaded' = 0
    /\ failed' = 0
    /\ attempts' = <<>>
    /\ dl_exit' = "running"
    /\ meta_loaded' = FALSE
    /\ out_dir_created' = FALSE
    /\ dl_log' = <<>>
    /\ UNCHANGED <<meta_exists, objects, max_images, fs>>
    /\ UNCHANGED <<rprVars, convVars, embVars>>

NextDlRuns == NextDl \/ DlRerun

-----------------------------------------------------------------------------
(* precalculate_embeddings.py *)

\* image files are numbered in sorted path order
ImageIds == 1..MaxImages

\* sorted(set(image_files)) for the files present
SortedSeq(S) ==
    LET ids == [k \in 1..MaxImages |-> k]
    IN  SelectSeq(ids, LAMBDA p : p \in S)

\* str(img_path.relative_to(images_dir))
RelName(p) == [rel |-> p]

\* the normalised model.encode_image row of image p
Embedding(p) == [image |-> p]

\* image_files[i:i + batch_size] (i is 0-based)
BatchFiles(files, i, bs) == SubSeq(files, i + 1, Min(i + bs, Len(files)))

BatchDecoded_until_first_failure(batch_files) ==
    LET bad == {k \in 1..Len(batch_files) : batch_files[k] \notin decodable}
        firstBad == IF bad = {} THEN Len(batch_files) + 1
                    ELSE CHOOSE k \in bad : \A j \in bad : k <= j
    IN  SubSeq(batch_files, 1, firstBad - 1)

\* the images of a batch that Image.open / preprocess accept, in order
BatchDecoded(batch_files) ==
    SelectSeq(batch_files, LAMBDA p : p \in decodable)

BatchNames_all(batch_files) ==
    [k \in 1..Len(batch_files) |-> RelName(batch_files[k])]

\* batch_names at the end of the inner loop
BatchNames(batch_files) ==
    LET ok == BatchDecoded(batch_files)
    IN  [k \in 1..Len(ok) |-> RelName(ok[k])]

\* the rows model.encode_image returns for the stacked batch
BatchEmbeddings(batch_files) ==
    LET ok == BatchDecoded(batch_files)
    IN  [k \in 1..Len(ok) |-> Embedding(ok[k])]

\* the entries the inner loop appends to failed_images
BatchFailed(batch_files) ==
    LET bad == SelectSeq(batch_files, LAMBDA p : p \notin decodable)
    IN  [k \in 1..Len(bad) |-> [path |-> bad[k], error |-> "cannot identify image file"]]

NoArchive == [written |-> FALSE]

EmbIdle ==
    /\ emb_pc = "idle"
    /\ images_dir_exists = FALSE
    /\ image_files = <<>>
    /\ decodable = {}
    /\ batch_size = 1
    /\ batch_i = 0
    /\ all_embeddings = <<>>
    /\ all_filenames = <<>>
    /\ failed_images = <<>>
    /\ archive = NoArchive
    /\ index_json = NoArchive
    /\ model_loaded = FALSE
    /\ emb_exit = "running"
    /\ emb_log = <<>>

InitEmb ==
    /\ emb_pc = "start"
    /\ images_dir_exists \in BOOLEAN
    /\ \E present \in SUBSET ImageIds :
         /\ images_dir_exists = FALSE => present = {}
         /\ image_files = SortedSeq(present)
         /\ decodable \in SUBSET present
    /\ batch_size \in 1..MaxBatch
    /\ batch_i = 0
    /\ all_embeddings = <<>>
    /\ all_filenames = <<>>
    /\ failed_images = <<>>
    /\ archive = NoArchive
    /\ index_json = NoArchive
    /\ model_loaded = FALSE
    /\ emb_exit = "running"
    /\ emb_log = <<>>

EmbMain_no_exists_check ==
    /\ emb_pc = "start"
    /\ model_loaded' = TRUE
    /\ IF Len(image_files) = 0
       THEN /\ emb_log' = <<"Found images", "No images found!">>
            /\ emb_pc' = "done"
            /\ emb_exit' = "exit0"
       ELSE /\ emb_log' = <<"Found images">>
            /\ emb_pc' = "loop"
            /\ UNCHANGED emb_exit
    /\ UNCHANGED <<images_dir_exists, image_files, decodable, batch_size,
                   batch_i, all_embeddings, all_filenames, failed_images,
                   archive, index_json>>
    /\ UNCHANGED <<rprVars, convVars, dlVars>>

\* main() and calculate_embeddings() up to the batch loop
EmbMain ==
    /\ emb_pc = "start"
    /\ IF ~images_dir_exists
       THEN /\ emb_log' = <<"Error: Images directory does not exist">>
            /\ emb_pc' = "done"
            /\ emb_exit' = "exit1"
            /\ UNCHANGED model_loaded
       ELSE /\ model_loaded' = TRUE
            /\ IF Len(image_files) = 0
               THEN /\ emb_log' = <<"Found images", "No images found!">>
                    /\ emb_pc' = "done"
                    /\ emb_exit' = "exit0"
               ELSE /\ emb_log' = <<"Found images">>
                    /\ emb_pc' = "loop"
                    /\ UNCHANGED emb_exit
    /\ UNCHANGED <<images_dir_exists, image_files, decodable, batch_size,
                   batch_i, all_embeddings, all_filenames, failed_images,
                   archive, index_json>>
    /\ UNCHANGED <<rprVars, convVars, dlVars>>

\* one iteration of the batch loop
EmbBatch ==
    /\ emb_pc = "loop"
    /\ batch_i < Len(image_files)
    /\ LET batch_files == BatchFiles(image_files, batch_i, batch_size)
           batch_images == BatchEmbeddings(batch_files)
           batch_names == BatchNames(batch_files)
       IN  /\ failed_images' = failed_images \o BatchFailed(batch_files)
           /\ IF batch_images # <<>>
              THEN /\ all_embeddings' = Append(all_embeddings, batch_images)
                   /\ all_filenames' = all_filenames \o batch_names
              ELSE UNCHANGED <<all_embeddings, all_filenames>>
    /\ batch_i' = batch_i + batch_size
    /\ UNCHANGED <<emb_pc, images_dir_exists, image_files, decodable,
                   batch_size, archive, index_json, model_loaded, emb_exit,
                   emb_log>>
    /\ UNCHANGED <<rprVars, convVars, dlVars>>

\* after the loop: np.vstack(all_embeddings), which raises ValueError on an
\* empty list, then np.savez_compressed and the JSON index
EmbSave ==
    /\ emb_pc = "loop"
    /\ batch_i >= Len(image_files)
    /\ IF all_embeddings = <<>>
       THEN /\ emb_exit' = "uncaught"
            /\ UNCHANGED <<archive, index_json, emb_log>>
       ELSE LET embeddings_array == Concat(all_embeddings)
            IN  /\ emb_log' = emb_log \o <<"Successfully processed">>
                       \o (IF failed_images # <<>>
                           THEN <<"Failed to process">> ELSE <<>>)
                       \o <<"Saved embeddings", "Saved index">>
                /\ archive' = [written |-> TRUE,
                               embeddings |-> embeddings_array,
                               filenames |-> all_filenames]
                /\ index_json' = [written |-> TRUE,
                                  num_images |-> Len(all_filenames),
                                  filenames |-> all_filenames]
                /\ emb_exit' = "exit0"
    /\ emb_pc' = "done"
    /\ UNCHANGED <<images_dir_exists, image_files, decodable, batch_size,
                   batch_i, all_embeddings, all_filenames, failed_images,
                   model_loaded>>
    /\ UNCHANGED <<rprVars, convVars, dlVars>>

NextEmb == EmbMain \/ EmbBatch \/ EmbSave

-----------------------------------------------------------------------------
(* Specifications: one per script, and all scripts together *)

InitRprOnly == InitRpr /\ ConvIdle /\ DlIdle /\ EmbIdle

NextRpr == RprCall

SpecRpr == InitRprOnly /\ [][NextRpr]_vars

InitConvOnly == InitConv /\ RprIdle /\ DlIdle /\ EmbIdle

SpecConv == InitConvOnly /\ [][NextConv]_vars

InitDlOnly == InitDl /\ RprIdle /\ ConvIdle /\ EmbIdle

SpecDl == InitDlOnly /\ [][NextDl]_vars

\* the downloader run up to MaxRuns times over the same output directory
SpecDlRuns == InitDlOnly /\ [][NextDlRuns]_vars

InitEmbOnly == InitEmb /\ RprIdle /\ ConvIdle /\ DlIdle

SpecEmb == InitEmbOnly /\ [][NextEmb]_vars

Init == InitConvOnly \/ InitDlOnly \/ InitEmbOnly

Next == NextConv \/ NextDl \/ NextEmb

Spec == Init /\ [][Next]_vars

-----------------------------------------------------------------------------
(* Properties of the converter *)

Written == {n \in NotebookNames : out_files[n].exists}

NotebookRaises(nb) == \E k \in 1..Len(nb.cells) : CellRaises(nb.cells[k])

\* C1: every notebook written by convert_notebook begins with the Drive
\* mount cell (id colab-mount-drive) at index 0 and the pip install cell (id
\* colab-install-deps) at index 1, and the original cells follow in their
\* original order.
C1_MountInstallFirst ==
    \A n \in Written :
        LET out == out_files[n].cells
            inp == nb_content[n].cells
        IN  /\ Len(out) = Len(inp) + 2
            /\ out[1].id = "colab-mount-drive"
            /\ out[1].cell_type = "code"
            /\ source_as_str(out[1]) = MOUNT_CELL_SOURCE
            /\ out[2].id = "colab-install-deps"
            /\ out[2].cell_type = "code"
            /\ source_as_str(out[2]) = INSTALL_CELL_SOURCE
            /\ \A k \in 1..Len(inp) :
                 /\ out[k + 2].id = inp[k].id
                 /\ out[k + 2].cell_type = inp[k].cell_type

\* C1 witness: a notebook of two different cells and a notebook without cells
\* have both been written.
C1_Witness ==
    /\ conv_pc = "done"
    /\ Written = NotebookNames
    /\ nb_content["nb1"].cells = <<>>
    /\ Len(nb_content["nb2"].cells) = 2
    /\ nb_content["nb2"].cells[1].id = "text"
    /\ nb_content["nb2"].cells[2].id = "setup"

\* C2: in every notebook written by convert_notebook every code cell has an
\* empty outputs list and execution_count None.
C2_OutputsCleared ==
    \A n \in Written :
        \A k \in 1..Len(out_files[n].cells) :
            LET cell == out_files[n].cells[k]
            IN  cell.cell_type = "code" =>
                  /\ cell.outputs = <<>>
                  /\ cell.execution_count = None

\* C2 witness: a written notebook whose input held a code cell with outputs
\* whose source was rewritten and one with outputs whose source was not.
C2_Witness ==
    /\ "nb1" \in Written
    /\ Len(nb_content["nb1"].cells) = 2
    /\ nb_content["nb1"].cells[1].id = "setup"
    /\ nb_content["nb1"].cells[1].outputs # <<>>
    /\ out_files["nb1"].cells[3].source # nb_content["nb1"].cells[1].source
    /\ nb_content["nb1"].cells[2].id = "plain"
    /\ nb_content["nb1"].cells[2].outputs # <<>>
    /\ out_files["nb1"].cells[4].source = nb_content["nb1"].cells[2].source

\* C9 as stated: when processing one cell of a notebook raises, the
\* notebook's output file is still written (and the remaining notebooks are
\* still converted): at the end every input notebook has an output file.
C9_Original ==
    conv_pc = "done" =>
        \A k \in 1..Len(notebooks) : out_files[notebooks[k]].exists

\* C9 amended: exceptions are caught per notebook.  When a cell of a notebook
\* raises, the failure is logged, no output file is written for that
\* notebook, and the remaining notebooks are still converted: at the end
\* every notebook has been handled, in order, and has an output file exactly
\* when none of its cells raised.
C9_PerNotebook ==
    /\ conv_exit # "uncaught"
    /\ conv_pc = "loop" => Len(conv_log) = nb_idx
    /\ (conv_pc = "done" /\ notebooks # <<>>) =>
         /\ nb_idx = Len(notebooks) + 1
         /\ Len(conv_log) = Len(notebooks) + 2
         /\ \A k \in 1..Len(notebooks) :
              LET n == notebooks[k]
              IN  /\ conv_log[k + 1].nb = n
                  /\ NotebookRaises(nb_content[n]) =>
                       /\ ~out_files[n].exists
                       /\ conv_log[k + 1].msg = "failed"
                  /\ ~NotebookRaises(nb_content[n]) =>
                       /\ out_files[n].exists
                       /\ conv_log[k + 1].msg = "ok"

\* C9 witness: the first notebook failed on its second cell, was logged and
\* not written, and the second notebook was converted after it.
C9_Witness ==
    /\ conv_pc = "done"
    /\ notebooks = NameOrder
    /\ Len(nb_content["nb1"].cells) = 2
    /\ ~CellRaises(nb_content["nb1"].cells[1])
    /\ CellRaises(nb_content["nb1"].cells[2])
    /\ ~out_files["nb1"].exists
    /\ conv_log[2] = [msg |-> "failed", nb |-> "nb1"]
    /\ out_files["nb2"].exists
    /\ Len(nb_content["nb2"].cells) = 2

-----------------------------------------------------------------------------
(* Properties of replace_project_root *)

\* one of the three setup patterns is in the text
HasSetupPattern(s) ==
    \/ Contains(s, NB00_DETECT) /\ \E i \in 1..Len(s) : NB00BlockAt(s, i)
    \/ Contains(s, NB01_OLD)
    \/ \E i \in 1..Len(s) : CurrentDirAt(s, i)

HasPattern(s) ==
    HasSetupPattern(s) \/ Contains(s, STANDALONE_NOTEBOOK_DIR_OLD)

\* the text with every match of a known pattern replaced and nothing else
\* touched
PatternsReplaced(s) == StandaloneStep(SetupStep(s).source)

NonBlank(line) == line # <<>>
NonBlankLines(s) == SelectSeq(SplitNL(s), NonBlank)

\* C10 as stated: replace_project_root replaces exactly the text matched by
\* its path patterns and leaves every other part of the cell source
\* unchanged.
C10_Original ==
    rpr_pc = "done" => Concat(rpr_out) = PatternsReplaced(Concat(rpr_src))

\* C10 amended: replace_project_root replaces the text matched by its path
\* patterns; in a cell where a setup pattern (NB00 block, NOTEBOOK_DIR /
\* PROJECT_ROOT pair, CURRENT_DIR / PROJECT_ROOT pair) was replaced it also
\* deletes every line containing .mkdir( and collapses each run of three or
\* more newlines; every other part is unchanged, and a code cell whose source
\* contains none of the patterns keeps its source identical, .mkdir() lines
\* and blank lines included.
C10_ReplacesPatterns ==
    rpr_pc = "done" =>
        LET src == Concat(rpr_src)
            out == Concat(rpr_out)
        IN  /\ ~HasPattern(src) => rpr_out = rpr_src
            /\ ~HasSetupPattern(src) =>
                 /\ Len(out) = Len(src)
                 /\ \A i \in 1..Len(src) :
                      out[i] = IF src[i] = "ND" THEN "NDNEW" ELSE src[i]
            /\ HasSetupPattern(src) =>
                 /\ ~Contains(out, <<"MK">>)
                 /\ ~Contains(out, <<"NL", "NL", "NL">>)
                 /\ ~Contains(out, <<"ND">>)
                 /\ NonBlankLines(out) =
                      SelectSeq(NonBlankLines(PatternsReplaced(src)), NoMkdir)

\* C10 witness: a setup cell lost its .mkdir( line with the pattern replaced.
C10_Witness ==
    /\ rpr_pc = "done"
    /\ Concat(rpr_src) = <<"ND", "NL", "PRN", "NL", "MK", "NL">>
    /\ Concat(rpr_out) = <<"NEW", "NL">>

-----------------------------------------------------------------------------
(* Properties of the downloader *)

\* C3 as stated: no download is issued for, and no write is made to, an
\* output path at which a file already exists, so every pre-existing file is
\* left unchanged, also when two metadata objects map to the same file name.
C3_SkipsExisting ==
    /\ \A k \in 1..Len(attempts) : ~attempts[k].existed
    /\ \A f \in FileNames : fs0[f].exists => fs[f] = fs0[f]

\* C7: every prepared task is attempted exactly once in list order, a failed
\* task does not keep the later ones from being attempted, and at the end of
\* the run downloaded + failed is the number of prepared tasks.
C7_EachTaskOnce ==
    /\ \A k \in 1..Len(attempts) :
         /\ attempts[k].task = k
         /\ attempts[k].output_path = tasks[k].output_path
    /\ downloaded = Cardinality({k \in 1..Len(attempts) : attempts[k].ok})
    /\ failed = Cardinality({k \in 1..Len(attempts) : ~attempts[k].ok})
    /\ dl_pc = "loop" => Len(attempts) = task_idx - 1
    /\ dl_pc = "done" =>
         /\ Len(attempts) = Len(tasks)
         /\ downloaded + failed = Len(tasks)

\* C7 witness: a run of three tasks ended after the first download failed
\* and the two after it were attempted, one of them with success.
C7_Witness ==
    /\ dl_pc = "done"
    /\ Len(tasks) = 3
    /\ ~attempts[1].ok
    /\ attempts[2].ok
    /\ ~attempts[3].ok
    /\ downloaded = 1
    /\ failed = 2

-----------------------------------------------------------------------------
(* Properties of the embedding script *)

\* the image files the batch loop has gone through
Seen == {image_files[k] : k \in 1..Min(batch_i, Len(image_files))}

Occurrences(seq, x) == Cardinality({k \in 1..Len(seq) : seq[k] = x})

FailedPaths == [k \in 1..Len(failed_images) |-> failed_images[k].path]

\* C4: whenever the archive is written the embeddings array has as many rows
\* as the saved filename list has entries, row k is the embedding of the
\* image named by filenames[k], and the JSON index's num_images and
\* filenames are those of that list.
C4_RowsAlign ==
    archive.written =>
        /\ Len(archive.embeddings) = Len(archive.filenames)
        /\ \A k \in 1..Len(archive.filenames) :
             archive.embeddings[k] = Embedding(archive.filenames[k].rel)
        /\ index_json.written
        /\ index_json.num_images = Len(archive.filenames)
        /\ index_json.filenames = archive.filenames

\* C4 witness: an archive written from several batches, one of which lost
\* its first image to a decode failure.
C4_Witness ==
    /\ archive.written
    /\ batch_size = 2
    /\ Len(image_files) = 4
    /\ decodable = {image_files[2], image_files[3]}
    /\ Len(archive.embeddings) = 2

\* C5: after each batch every image file seen so far is exactly once in the
\* processed-filenames list or in the failed-images list (processed + failed
\* = images seen), and the images of a batch that decode are embedded also
\* when other images of the batch fail.
C5_SkippedAndRecorded ==
    emb_pc \in {"loop", "done"} =>
        /\ Len(all_filenames) + Len(failed_images) = Cardinality(Seen)
        /\ \A p \in Seen :
             /\ Occurrences(all_filenames, RelName(p))
                  + Occurrences(FailedPaths, p) = 1
             /\ p \in decodable =>
                  /\ Occurrences(all_filenames, RelName(p)) = 1
                  /\ Occurrences(Concat(all_embeddings), Embedding(p)) = 1

\* C5 witness: the first batch of three lost its first image and embedded
\* the two after it, and the loop goes on.
C5_Witness ==
    /\ emb_pc = "loop"
    /\ batch_size = 3
    /\ batch_i = 3
    /\ Len(image_files) = 4
    /\ FailedPaths = <<image_files[1]>>
    /\ all_filenames = <<RelName(image_files[2]), RelName(image_files[3])>>

\* C6 as stated: for a non-empty set of image files and any subset of them
\* failing to decode, the case where every image fails included, the run
\* ends normally with the archive and the JSON index written and not with an
\* uncaught exception.
C6_NeverAborts ==
    (emb_pc = "done" /\ image_files # <<>>) =>
        /\ emb_exit = "exit0"
        /\ archive.written
        /\ index_json.written

-----------------------------------------------------------------------------
(* Missing input paths *)

DlAbortedEarly ==
    /\ dl_exit = "exit1"
    /\ dl_log = <<"Error: Metadata file not found">>
    /\ ~meta_loaded
    /\ ~out_dir_created
    /\ tasks = <<>>
    /\ attempts = <<>>
    /\ fs = fs0

EmbAbortedEarly ==
    /\ emb_exit = "exit1"
    /\ emb_log = <<"Error: Images directory does not exist">>
    /\ ~model_loaded
    /\ all_embeddings = <<>>
    /\ ~archive.written
    /\ ~index_json.written

\* C8 as stated: in each of the three scripts a missing input path makes the
\* script print an error and abort with a failure exit before any processing
\* step runs.
C8_Original ==
    /\ (dl_pc = "done" /\ ~meta_exists) => DlAbortedEarly
    /\ (emb_pc = "done" /\ ~images_dir_exists) => EmbAbortedEarly
    /\ (conv_pc = "done" /\ ~nb_dir_exists) =>
         /\ conv_exit = "exit1"
         /\ Written = {}

\* C8 amended: in the downloader and the embedding script a missing required
\* input path makes the script print an error and abort with a failure exit
\* before any processing step runs; the converter, whose notebooks directory
\* is optional, prints "No notebooks found" and returns normally (exit
\* status 0) without converting or writing anything.
C8_MissingInput ==
    /\ (dl_pc = "done" /\ ~meta_exists) => DlAbortedEarly
    /\ (emb_pc = "done" /\ ~images_dir_exists) => EmbAbortedEarly
    /\ (conv_pc = "done" /\ ~nb_dir_exists) =>
         /\ conv_exit = "exit0"
         /\ conv_log = <<[msg |-> "No notebooks found", nb |-> None]>>
         /\ Written = {}

\* C8 witness: the converter has ended on a missing notebooks directory.
C8_Witness ==
    /\ conv_pc = "done"
    /\ ~nb_dir_exists
    /\ conv_exit = "exit0"
    /\ Written = {}

-----------------------------------------------------------------------------
(* Further properties of the downloader *)

\* C11 as stated: given --max N with N >= 0, a run of download_dataset
\* attempts at most N downloads.
C11_MaxIsUpperBound ==
    max_images.given =>
        /\ Len(tasks) <= max_images.n
        /\ Len(attempts) <= max_images.n

\* C12 as stated: for every metadata object for which get_image_info returns
\* a filename, the filename consists only of alphanumeric characters, spaces,
\* '.', '_' and '-', so it holds no path separator.
C12_SafeFileNames ==
    meta_loaded =>
        \A i \in 1..Len(objects) :
            objects[i].multimedia = "url" =>
                LET filename == get_image_info(objects[i]).filename
                IN  \A k \in 1..Len(filename) : IsSafeChar(filename[k])

\* C13 as stated: a download that fails leaves no file at its output path,
\* and in a later run over the same metadata and output directory every image
\* whose download has failed and never succeeded is attempted again.
C13_FailedLeavesNoFile ==
    /\ Len(attempts) > 0 =>
           LET a == attempts[Len(attempts)]
           IN  (~a.ok /\ ~a.existed) => ~fs[a.output_path].exists
    /\ (run > 1 /\ meta_loaded) =>
           retry \subseteq {tasks[i].output_path : i \in 1..Len(tasks)}

=============================================================================
